---- MODULE Spec2Model ----
(***************************************************************************)
(* A model of the PDF-to-podcast service: the paragraph chunker, the      *)
(* TextToSpeechService synthesis/assembly/degradation logic, and the      *)
(* PdfToPodcastService pipeline as driven by the web handlers.            *)
(*                                                                         *)
(* Strings are sequences of characters over a three-letter alphabet: a    *)
(* letter, a space and the newline.  Files are a function from paths to   *)
(* contents.  Every remote call, subprocess and file operation the code   *)
(* performs is a step whose outcome is chosen by the environment.         *)
(***************************************************************************)
EXTENDS Integers, Sequences, FiniteSets, TLC

\* ------------------------------------------------------------------ text

\* The newline character '\n'.
NL == "NL"
\* The space character ' '.
SP == "SP"
\* The characters texts are made of.
Chars == {"a", SP, NL}

\* Longest text given to the chunker on its own.
MaxTextLen == 5
\* Largest max_length given to the chunker on its own.
MaxMaxLength == 4

RECURSIVE SeqsUpTo(_, _)
\* All sequences over S of length at most n.
SeqsUpTo(S, n) ==
    IF n = 0 THEN {<<>>}
    ELSE LET shorter == SeqsUpTo(S, n - 1)
         IN  shorter \cup {Append(s, c) : s \in {t \in shorter : Len(t) = n - 1}, c \in S}

RECURSIVE split(_)
\* str.split('\n'): the newline-separated paragraphs of text; the empty text has
\* one empty paragraph.
split(text) ==
    IF text = <<>> THEN << <<>> >>
    ELSE LET rest == split(Tail(text))
         IN  IF Head(text) = NL
             THEN << <<>> >> \o rest
             ELSE << <<Head(text)>> \o Head(rest) >> \o Tail(rest)

RECURSIVE join(_, _)
\* sep.join(parts)
join(sep, parts) ==
    IF parts = <<>> THEN <<>>
    ELSE IF Len(parts) = 1 THEN Head(parts)
    ELSE Head(parts) \o sep \o join(sep, Tail(parts))

\* ------------------------------------------------------------------ chunker

RECURSIVE split_for_tts_loop(_, _, _, _)
\* The body of PdfToPodcastService._split_for_tts: the loop over the paragraphs
\* and the final append.
split_for_tts_loop(paragraphs, chunks, current_chunk, max_length) ==
    IF paragraphs = <<>>
    THEN IF current_chunk # <<>> THEN Append(chunks, current_chunk) ELSE chunks
    ELSE LET paragraph == Head(paragraphs)
         IN  IF Len(current_chunk) + Len(paragraph) > max_length
             THEN split_for_tts_loop(Tail(paragraphs),
                      IF current_chunk # <<>> THEN Append(chunks, current_chunk) ELSE chunks,
                      paragraph, max_length)
             ELSE split_for_tts_loop(Tail(paragraphs), chunks,
                      IF current_chunk # <<>>
                      THEN current_chunk \o <<NL>> \o paragraph
                      ELSE paragraph,
                      max_length)

RECURSIVE split_for_tts_inverted(_, _, _, _)
\* split_for_tts_loop with the length test inverted (< for >).
split_for_tts_inverted(paragraphs, chunks, current_chunk, max_length) ==
    IF paragraphs = <<>>
    THEN IF current_chunk # <<>> THEN Append(chunks, current_chunk) ELSE chunks
    ELSE LET paragraph == Head(paragraphs)
         IN  IF Len(current_chunk) + Len(paragraph) < max_length
             THEN split_for_tts_inverted(Tail(paragraphs),
                      IF current_chunk # <<>> THEN Append(chunks, current_chunk) ELSE chunks,
                      paragraph, max_length)
             ELSE split_for_tts_inverted(Tail(paragraphs), chunks,
                      IF current_chunk # <<>>
                      THEN current_chunk \o <<NL>> \o paragraph
                      ELSE paragraph,
                      max_length)

\* split_for_tts with the inverted length test.
split_for_tts_mutant(text, max_length) ==
    split_for_tts_inverted(split(text), <<>>, <<>>, max_length)

RECURSIVE split_for_tts_unguarded(_, _, _, _)
\* split_for_tts_loop whose overflow branch appends current_chunk without
\* testing that it is non-empty.
split_for_tts_unguarded(paragraphs, chunks, current_chunk, max_length) ==
    IF paragraphs = <<>>
    THEN IF current_chunk # <<>> THEN Append(chunks, current_chunk) ELSE chunks
    ELSE LET paragraph == Head(paragraphs)
         IN  IF Len(current_chunk) + Len(paragraph) > max_length
             THEN split_for_tts_unguarded(Tail(paragraphs),
                      Append(chunks, current_chunk),
                      paragraph, max_length)
             ELSE split_for_tts_unguarded(Tail(paragraphs), chunks,
                      IF current_chunk # <<>>
                      THEN current_chunk \o <<NL>> \o paragraph
                      ELSE paragraph,
                      max_length)

\* split_for_tts with the unguarded append.
split_for_tts_noguard(text, max_length) ==
    split_for_tts_unguarded(split(text), <<>>, <<>>, max_length)

\* PdfToPodcastService._split_for_tts(text, max_length)
split_for_tts(text, max_length) ==
    split_for_tts_loop(split(text), <<>>, <<>>, max_length)

RECURSIVE split_text_for_tts_loop(_, _, _, _)
\* The body of TextToSpeechService._split_text_for_tts.
split_text_for_tts_loop(paragraphs, chunks, current_chunk, max_length) ==
    IF paragraphs = <<>>
    THEN IF current_chunk # <<>> THEN Append(chunks, current_chunk) ELSE chunks
    ELSE LET paragraph == Head(paragraphs)
         IN  IF Len(current_chunk) + Len(paragraph) > max_length
             THEN split_text_for_tts_loop(Tail(paragraphs),
                      IF current_chunk # <<>> THEN Append(chunks, current_chunk) ELSE chunks,
                      paragraph, max_length)
             ELSE split_text_for_tts_loop(Tail(paragraphs), chunks,
                      IF current_chunk # <<>>
                      THEN current_chunk \o <<NL>> \o paragraph
                      ELSE paragraph,
                      max_length)

RECURSIVE split_text_for_tts_loop_ge(_, _, _, _)
\* split_text_for_tts_loop with the length test as >= for >.
split_text_for_tts_loop_ge(paragraphs, chunks, current_chunk, max_length) ==
    IF paragraphs = <<>>
    THEN IF current_chunk # <<>> THEN Append(chunks, current_chunk) ELSE chunks
    ELSE LET paragraph == Head(paragraphs)
         IN  IF Len(current_chunk) + Len(paragraph) >= max_length
             THEN split_text_for_tts_loop_ge(Tail(paragraphs),
                      IF current_chunk # <<>> THEN Append(chunks, current_chunk) ELSE chunks,
                      paragraph, max_length)
             ELSE split_text_for_tts_loop_ge(Tail(paragraphs), chunks,
                      IF current_chunk # <<>>
                      THEN current_chunk \o <<NL>> \o paragraph
                      ELSE paragraph,
                      max_length)

\* _split_text_for_tts over the loop with >=.
split_text_for_tts_ge(text, max_length) ==
    split_text_for_tts_loop_ge(split(text), <<>>, <<>>, max_length)

\* TextToSpeechService._split_text_for_tts(text, max_length)
split_text_for_tts(text, max_length) ==
    split_text_for_tts_loop(split(text), <<>>, <<>>, max_length)

VARIABLES
    c_text,        \* the chunker's argument text
    c_max_length,  \* the chunker's argument max_length
    svc_called,    \* _split_for_tts has returned
    svc_chunks,    \* what _split_for_tts returned
    tts_called,    \* _split_text_for_tts has returned
    tts_chunks     \* what _split_text_for_tts returned

varsChunk == <<c_text, c_max_length, svc_called, svc_chunks, tts_called, tts_chunks>>

VARIABLES
    files,         \* the file system: a function from the existing paths to their contents
    t_text,        \* generate_audio's argument text (the script)
    t_service,     \* self.service of the TextToSpeechService
    t_pc,          \* where TextToSpeechService.generate_audio stands
    t_chunks,      \* _generate_audio_openai's chunks
    t_i,           \* the loop index i of _generate_audio_openai
    t_temp_files,  \* _generate_audio_openai's temp_files
    t_calls,       \* the requests.post calls made so far: chunk index and outcome
    t_ffmpeg,      \* how the encoder subprocess ended: "not_run", "ok" or "failed"
    t_result       \* the path generate_audio returned

varsTts == <<t_text, t_service, t_pc, t_chunks, t_i, t_temp_files, t_calls, t_ffmpeg, t_result>>

VARIABLES
    a_pc,            \* per job: where its /convert request and pipeline stand
    a_mode,          \* per job: "none", "inline" (awaited by /convert) or "background"
    a_tasks,         \* per job: how many create_podcast runs were added to background_tasks
    a_http,          \* per job: what /convert answered
    p_text,          \* per job: create_podcast's extracted text
    p_chunks,        \* per job: _transform_to_podcast's chunks
    p_processed,     \* per job: _transform_to_podcast's processed_chunks
    p_llm_calls,     \* per job: the generation calls made: chunk index, template, input,
                     \* outcome and output
    p_scripted,      \* per job: _transform_to_podcast has returned the script
    p_script,        \* per job: the script _transform_to_podcast returned
    p_text_chunks,   \* per job: _generate_audio's text_chunks
    p_audio_chunks,  \* per job: _generate_audio's audio_chunks
    p_tts_calls,     \* per job: the requests.post calls made: chunk index and outcome
    p_error,         \* per job: the stage whose exception left create_podcast, or "none"
    p_result,        \* per job: the path create_podcast returned
    p_pdf_removes,   \* per job: how many times os.remove(pdf_path) has run
    a_req,           \* per job: the /convert request in flight, not yet handled
    h_resp           \* the last answer of /status or /download

varsApp == <<a_pc, a_mode, a_tasks, a_http, p_text, p_chunks, p_processed, p_llm_calls, p_scripted,
             p_script, p_text_chunks, p_audio_chunks, p_tts_calls, p_error, p_result, p_pdf_removes,
             a_req, h_resp>>

VARIABLES
    k_script,      \* the speaker splitter's argument script
    k_called,      \* split_speakers has returned
    k_result       \* what split_speakers returned

varsSpeakers == <<k_script, k_called, k_result>>

vars == <<varsChunk, varsSpeakers, files, varsTts, varsApp>>

\* The chunker's variables when no chunker call is being followed.
ChunkIdle ==
    /\ c_text = <<>>
    /\ c_max_length = 1
    /\ svc_called = FALSE
    /\ svc_chunks = <<>>
    /\ tts_called = FALSE
    /\ tts_chunks = <<>>

\* ------------------------------------------------------------------ speaker splitter

\* The speaker labels a script can use.
Labels == {"David", "Sarah"}

\* The single implicit speaker of the lines that no label precedes.
Implicit == "Speaker"

\* A line that starts with '<Label>:'.
is_labeled(line) == Len(line) >= 2 /\ line[1] \in Labels /\ line[2] = ":"

RECURSIVE lstrip(_)
\* The text without its leading spaces.
lstrip(text) ==
    IF text # <<>> /\ Head(text) = SP THEN lstrip(Tail(text)) ELSE text

\* No utterance for any speaker.
NoUtterances == [l \in Labels \cup {Implicit} |-> <<>>]

\* The flush of the in-progress utterance: it is added to its speaker's
\* utterances with the counter as its position index; nothing in progress,
\* nothing added.
flush(result, label, text, counter) ==
    IF text = <<>> THEN result
    ELSE [result EXCEPT ![label] = Append(@, [text |-> text, index |-> counter])]

RECURSIVE scan_fresh(_, _, _, _, _)
\* scan with an unlabeled line starting an utterance of its own.
scan_fresh(lines, label, text, counter, result) ==
    IF lines = <<>> THEN flush(result, label, text, counter)
    ELSE LET line == Head(lines)
             next_counter == IF text = <<>> THEN counter ELSE counter + 1
         IN  IF is_labeled(line)
             THEN scan_fresh(Tail(lines), line[1], lstrip(SubSeq(line, 3, Len(line))),
                             next_counter, flush(result, label, text, counter))
             ELSE IF line = <<>>
             THEN scan_fresh(Tail(lines), label, text, counter, result)
             ELSE scan_fresh(Tail(lines), label, line,
                             next_counter, flush(result, label, text, counter))

\* split_speakers with every unlabeled line an utterance of its own.
split_speakers_fresh(script) ==
    scan_fresh(split(script), Implicit, <<>>, 0, NoUtterances)

RECURSIVE scan(_, _, _, _, _)
\* The scan of the lines in order: a labeled line flushes the utterance in
\* progress and starts one for its label; an unlabeled non-empty line is
\* appended, after a space, to the utterance in progress; the counter grows
\* by one at each flush.
scan(lines, label, text, counter, result) ==
    IF lines = <<>> THEN flush(result, label, text, counter)
    ELSE LET line == Head(lines)
         IN  IF is_labeled(line)
             THEN scan(Tail(lines), line[1], lstrip(SubSeq(line, 3, Len(line))),
                       IF text = <<>> THEN counter ELSE counter + 1,
                       flush(result, label, text, counter))
             ELSE IF line = <<>>
             THEN scan(Tail(lines), label, text, counter, result)
             ELSE scan(Tail(lines), label,
                       IF text = <<>> THEN line ELSE text \o <<SP>> \o line,
                       counter, result)

\* split_speakers(script): each speaker's utterances, in order, each with its
\* position index.
split_speakers(script) ==
    scan(split(script), Implicit, <<>>, 0, NoUtterances)

\* The speaker splitter's variables when no call is being followed.
SpeakersIdle ==
    /\ k_script = <<>>
    /\ k_called = FALSE
    /\ k_result = NoUtterances

\* ------------------------------------------------------------------ paths and files

\* The job identifiers (uuid4 strings) the model follows.
Jobs == {"j1", "j2"}

\* No path: what a call that has not returned has as its result.
NoPath == [dir |-> "none", id |-> "none", ext |-> "none", chunk |-> -1]

\* f"temp/uploads/{job_id}.pdf"
PdfPath(job_id) == [dir |-> "temp/uploads", id |-> job_id, ext |-> "pdf", chunk |-> -1]

\* f"temp/podcasts/{job_id}.mp3"
AudioPath(job_id) == [dir |-> "temp/podcasts", id |-> job_id, ext |-> "mp3", chunk |-> -1]

\* f"{output_path}_chunk_{i}.mp3"
ChunkPath(output_path, i) == [output_path EXCEPT !.chunk = i]

\* output_path.replace('.mp3', '.txt') of a path that ends in .mp3 and holds no
\* other '.mp3'.
TextPath(output_path) == [output_path EXCEPT !.ext = IF @ = "mp3" THEN "txt" ELSE @]

\* "filelist.txt", relative to the process's working directory.
FileList == [dir |-> ".", id |-> "filelist", ext |-> "txt", chunk |-> -1]

\* os.path.exists(path)
Exists(path) == path \in DOMAIN files

\* The file system after open(path, "w").write(content).
Written(fs, path, content) == [q \in DOMAIN fs \cup {path} |-> IF q = path THEN content ELSE fs[q]]

\* The file system after os.remove(path).
Removed(fs, path) == [q \in DOMAIN fs \ {path} |-> fs[q]]

\* The file system after os.rename(src, dst) of an existing src: dst is replaced.
Renamed(fs, src, dst) == [q \in (DOMAIN fs \ {src}) \cup {dst} |-> IF q = dst THEN fs[src] ELSE fs[q]]

\* The file system with no file.
NoFiles == [q \in {} |-> <<>>]

\* A text file's content.
TextFile(text) == [kind |-> "text", data |-> <<text>>]

\* An audio file's content: the fragments it plays, in order.
AudioFile(fragments) == [kind |-> "audio", data |-> fragments]

\* A file list's content: the paths it names, in order.
ListFile(paths) == [kind |-> "list", data |-> paths]

\* ------------------------------------------------------------------ initial states

\* TextToSpeechService's variables when no generate_audio call is being followed.
TtsIdle ==
    /\ t_text = <<>>
    /\ t_service = "openai"
    /\ t_pc = "idle"
    /\ t_chunks = <<>>
    /\ t_i = 0
    /\ t_temp_files = <<>>
    /\ t_calls = <<>>
    /\ t_ffmpeg = "not_run"
    /\ t_result = NoPath

\* No /convert request: the value of a_req when none is in flight.
NoRequest == [filename |-> <<>>, parsable |-> FALSE, pages |-> <<>>, size |-> 0]

\* No body: what an answer that carries no file has as its body.
NoBody == [kind |-> "none", data |-> <<>>]

\* No answer of /status or /download yet.
NoResp == [endpoint |-> "none", job_id |-> "none", answer |-> "none", body |-> NoBody]

\* The web application with no request received yet.
AppIdle ==
    /\ a_pc = [j \in Jobs |-> "new"]
    /\ a_mode = [j \in Jobs |-> "none"]
    /\ a_tasks = [j \in Jobs |-> 0]
    /\ a_http = [j \in Jobs |-> "none"]
    /\ p_text = [j \in Jobs |-> <<>>]
    /\ p_chunks = [j \in Jobs |-> <<>>]
    /\ p_processed = [j \in Jobs |-> <<>>]
    /\ p_llm_calls = [j \in Jobs |-> <<>>]
    /\ p_scripted = [j \in Jobs |-> FALSE]
    /\ p_script = [j \in Jobs |-> <<>>]
    /\ p_text_chunks = [j \in Jobs |-> <<>>]
    /\ p_audio_chunks = [j \in Jobs |-> <<>>]
    /\ p_tts_calls = [j \in Jobs |-> <<>>]
    /\ p_error = [j \in Jobs |-> "none"]
    /\ p_result = [j \in Jobs |-> NoPath]
    /\ p_pdf_removes = [j \in Jobs |-> 0]
    /\ a_req = [j \in Jobs |-> NoRequest]
    /\ h_resp = NoResp

\* Any text and any max_length >= 1, neither chunker called yet.
InitChunk ==
    /\ c_text \in SeqsUpTo(Chars, MaxTextLen)
    /\ c_max_length \in 1..MaxMaxLength
    /\ svc_called = FALSE
    /\ svc_chunks = <<>>
    /\ tts_called = FALSE
    /\ tts_chunks = <<>>
    /\ files = NoFiles
    /\ TtsIdle
    /\ AppIdle
    /\ SpeakersIdle

\* A call of PdfToPodcastService._split_for_tts(c_text, c_max_length).
CallSplitForTts ==
    /\ ~svc_called
    /\ svc_called' = TRUE
    /\ svc_chunks' = split_for_tts(c_text, c_max_length)
    /\ UNCHANGED <<c_text, c_max_length, tts_called, tts_chunks>>
    /\ UNCHANGED <<files, varsTts, varsApp, varsSpeakers>>

\* A call of TextToSpeechService._split_text_for_tts(c_text, c_max_length).
CallSplitTextForTts ==
    /\ ~tts_called
    /\ tts_called' = TRUE
    /\ tts_chunks' = split_text_for_tts(c_text, c_max_length)
    /\ UNCHANGED <<c_text, c_max_length, svc_called, svc_chunks>>
    /\ UNCHANGED <<files, varsTts, varsApp, varsSpeakers>>

NextChunk ==
    \/ CallSplitForTts
    \/ CallSplitTextForTts

SpecChunk == InitChunk /\ [][NextChunk]_vars

\* Most lines of a script.
MaxLines == 3

\* The lines of the scripts: labeled ones, unlabeled ones, the empty line and
\* a line whose prefix is no speaker label.
ScriptLines ==
    { <<"David", ":", SP, "x">>, <<"Sarah", ":", SP, "y">>, <<"Sarah", ":", "x">>,
      <<"x">>, <<"y">>, <<>>, <<"x", ":", SP, "y">> }

\* Any script of at most MaxLines lines, the splitter not called yet.
InitSpeakers ==
    /\ k_script \in {join(<<NL>>, ls) : ls \in SeqsUpTo(ScriptLines, MaxLines)}
    /\ k_called = FALSE
    /\ k_result = NoUtterances
    /\ ChunkIdle
    /\ TtsIdle
    /\ AppIdle
    /\ files = NoFiles

\* A call of split_speakers(k_script).
CallSplitSpeakers ==
    /\ ~k_called
    /\ k_called' = TRUE
    /\ k_result' = split_speakers(k_script)
    /\ UNCHANGED <<k_script, varsChunk, files, varsTts, varsApp>>

NextSpeakers == CallSplitSpeakers

SpecSpeakers == InitSpeakers /\ [][NextSpeakers]_vars

\* ------------------------------------------------------------------ TextToSpeechService

\* Longest script given to TextToSpeechService.generate_audio.
MaxScriptLen == 5
\* max_chunk_size of _generate_audio_openai (4000 in the code), scaled to the
\* scripts of the model.
MaxChunkSize == 1

RECURSIVE replace_double_space(_)
\* text.replace("  ", " "): every non-overlapping pair of spaces, from the left,
\* becomes one space.
replace_double_space(text) ==
    IF Len(text) < 2 THEN text
    ELSE IF text[1] = SP /\ text[2] = SP
         THEN <<SP>> \o replace_double_space(SubSeq(text, 3, Len(text)))
         ELSE <<Head(text)>> \o replace_double_space(Tail(text))

RECURSIVE enhance_speech_dynamics(_, _)
\* TextToSpeechService._enhance_speech_dynamics(text, voice).  Over the model's
\* alphabet none of the word and punctuation patterns occurs, so what is left
\* is the loop that removes double spaces.
enhance_speech_dynamics(text, voice) ==
    IF \E k \in 1..(Len(text) - 1) : text[k] = SP /\ text[k + 1] = SP
    THEN enhance_speech_dynamics(replace_double_space(text), voice)
    ELSE text

\* The voice generate_audio is called with (its default).
Voice == "alloy"

\* The output_path generate_audio is called with.
t_output_path == AudioPath("j1")

\* response.content of a successful call for chunk i: the speech of the text
\* that was sent, tagged with the chunk it came from.
Fragment(i, input) == [chunk |-> i, spoken |-> input]

RECURSIVE Concat(_, _)
\* What the encoder writes for a file list: the fragments of the listed files,
\* in the list's order.
Concat(fs, paths) ==
    IF paths = <<>> THEN <<>>
    ELSE fs[Head(paths)].data \o Concat(fs, Tail(paths))

RECURSIVE RemovedAll(_, _)
\* The file system after removing every path of the sequence that exists.
RemovedAll(fs, paths) ==
    IF paths = <<>> THEN fs
    ELSE RemovedAll(IF Head(paths) \in DOMAIN fs THEN Removed(fs, Head(paths)) ELSE fs,
                    Tail(paths))

\* A lone surrogate code point: a character a Python str can hold and UTF-8
\* cannot encode.
Surrogate == "U+D83D"

\* The characters of the scripts given to generate_audio.
TtsChars == Chars \cup {Surrogate}

\* text.encode('utf-8'), and f.write(text) on a file opened in text mode with
\* the UTF-8 encoding, succeed: they raise UnicodeEncodeError for a text that
\* holds a lone surrogate.
encodable(text) == \A k \in 1..Len(text) : text[k] # Surrogate

\* A file that was opened for writing and had nothing written to it.
EmptyFile == TextFile(<<>>)

\* The values of self.service the model follows: the two that generate_audio
\* supports and one that it does not.
Services == {"openai", "local", "elevenlabs"}

\* The file tempfile.NamedTemporaryFile(suffix=".txt", delete=False) creates.
TempFile == [dir |-> "/tmp", id |-> "tmp", ext |-> "txt", chunk |-> -1]

\* TextToSpeechService with any service, any script and an empty file area.
InitTts ==
    /\ ChunkIdle
    /\ SpeakersIdle
    /\ AppIdle
    /\ files = NoFiles
    /\ t_text \in SeqsUpTo(TtsChars, MaxScriptLen)
    /\ t_service \in Services
    /\ t_pc = "idle"
    /\ t_chunks = <<>>
    /\ t_i = 0
    /\ t_temp_files = <<>>
    /\ t_calls = <<>>
    /\ t_ffmpeg = "not_run"
    /\ t_result = NoPath

\* GenerateAudio saving the script at the text path before any call is made.
GenerateAudio_text_first ==
    /\ t_pc = "idle"
    /\ t_service = "openai"
    /\ t_chunks' = split_text_for_tts(t_text, MaxChunkSize)
    /\ t_temp_files' = <<>>
    /\ t_i' = 0
    /\ t_pc' = "loop"
    /\ files' = Written(files, TextPath(t_output_path), TextFile(t_text))
    /\ UNCHANGED <<t_text, t_service, t_calls, t_ffmpeg, t_result, varsChunk, varsSpeakers, varsApp>>

\* generate_audio is called and _generate_audio_openai splits the text.
GenerateAudio ==
    /\ t_pc = "idle"
    /\ t_service = "openai"
    /\ t_chunks' = split_text_for_tts(t_text, MaxChunkSize)
    /\ t_temp_files' = <<>>
    /\ t_i' = 0
    /\ t_pc' = "loop"
    /\ UNCHANGED <<t_text, t_service, t_calls, t_ffmpeg, t_result, files, varsChunk, varsSpeakers, varsApp>>

\* The call for chunk i returns status 200: the fragment is saved.
TtsOk ==
    /\ t_pc = "loop"
    /\ t_i < Len(t_chunks)
    /\ LET enhanced_text == enhance_speech_dynamics(t_chunks[t_i + 1], Voice)
           temp_file == ChunkPath(t_output_path, t_i)
       IN  /\ files' = Written(files, temp_file, AudioFile(<<Fragment(t_i, enhanced_text)>>))
           /\ t_temp_files' = Append(t_temp_files, temp_file)
    /\ t_calls' = Append(t_calls, [chunk |-> t_i, outcome |-> "200"])
    /\ t_i' = t_i + 1
    /\ UNCHANGED <<t_text, t_service, t_pc, t_chunks, t_ffmpeg, t_result, varsChunk, varsSpeakers, varsApp>>

\* TtsErrorStatus with the error raised, as PdfToPodcastService._generate_audio does.
TtsErrorStatus_raises ==
    /\ t_pc = "loop"
    /\ t_i < Len(t_chunks)
    /\ t_calls' = Append(t_calls, [chunk |-> t_i, outcome |-> "error"])
    /\ t_pc' = "except"
    /\ UNCHANGED <<t_text, t_service, t_i, t_chunks, t_temp_files, t_ffmpeg, t_result, files, varsChunk, varsSpeakers, varsApp>>

\* The call for chunk i returns another status: the chunk is skipped.
TtsErrorStatus ==
    /\ t_pc = "loop"
    /\ t_i < Len(t_chunks)
    /\ t_calls' = Append(t_calls, [chunk |-> t_i, outcome |-> "error"])
    /\ t_i' = t_i + 1
    /\ UNCHANGED <<t_text, t_service, t_pc, t_chunks, t_temp_files, t_ffmpeg, t_result, files, varsChunk, varsSpeakers, varsApp>>

\* The call for chunk i raises (the endpoint is unreachable): control leaves the
\* loop for the except clause of _generate_audio_openai.
TtsRaises ==
    /\ t_pc = "loop"
    /\ t_i < Len(t_chunks)
    /\ t_calls' = Append(t_calls, [chunk |-> t_i, outcome |-> "raise"])
    /\ t_pc' = "except"
    /\ UNCHANGED <<t_text, t_service, t_i, t_chunks, t_temp_files, t_ffmpeg, t_result, files, varsChunk, varsSpeakers, varsApp>>

\* Several fragments: _combine_audio_files writes the encoder's file list.
CombineWriteList ==
    /\ t_pc = "loop"
    /\ t_i = Len(t_chunks)
    /\ Len(t_temp_files) > 1
    /\ files' = Written(files, FileList, ListFile(t_temp_files))
    /\ t_pc' = "ffmpeg"
    /\ UNCHANGED <<t_text, t_service, t_i, t_chunks, t_temp_files, t_calls, t_ffmpeg, t_result, varsChunk, varsSpeakers, varsApp>>

\* The encoder succeeds: it writes output_path from the files the list names,
\* and the list is removed.
FfmpegOk ==
    /\ t_pc = "ffmpeg"
    /\ Exists(FileList)
    /\ \A k \in 1..Len(files[FileList].data) : Exists(files[FileList].data[k])
    /\ files' = Removed(Written(files, t_output_path,
                                AudioFile(Concat(files, files[FileList].data))),
                        FileList)
    /\ t_ffmpeg' = "ok"
    /\ t_pc' = "cleanup"
    /\ UNCHANGED <<t_text, t_service, t_i, t_chunks, t_temp_files, t_calls, t_result, varsChunk, varsSpeakers, varsApp>>

\* FfmpegFails with the encoder's exception leaving _combine_audio_files, as
\* it leaves PdfToPodcastService._combine_audio_files.
FfmpegFails_raises ==
    /\ t_pc = "ffmpeg"
    /\ t_ffmpeg' = "failed"
    /\ t_pc' = "except"
    /\ UNCHANGED <<t_text, t_service, t_i, t_chunks, t_temp_files, t_calls, t_result,
                   files, varsChunk, varsSpeakers, varsApp>>

\* The encoder is missing or exits with failure: the except clause of
\* _combine_audio_files renames the first fragment to output_path.
FfmpegFails ==
    /\ t_pc = "ffmpeg"
    /\ files' = IF t_temp_files # <<>> /\ Exists(t_temp_files[1])
                THEN Renamed(files, t_temp_files[1], t_output_path)
                ELSE files
    /\ t_ffmpeg' = "failed"
    /\ t_pc' = "cleanup"
    /\ UNCHANGED <<t_text, t_service, t_i, t_chunks, t_temp_files, t_calls, t_result, varsChunk, varsSpeakers, varsApp>>

\* After _combine_audio_files: the fragments that still exist are removed and
\* output_path is returned.
CleanupTempFiles ==
    /\ t_pc = "cleanup"
    /\ files' = RemovedAll(files, t_temp_files)
    /\ t_result' = t_output_path
    /\ t_pc' = "done"
    /\ UNCHANGED <<t_text, t_service, t_i, t_chunks, t_temp_files, t_calls, t_ffmpeg, varsChunk, varsSpeakers, varsApp>>

\* One fragment: it is renamed to output_path, which is returned.
RenameSingle ==
    /\ t_pc = "loop"
    /\ t_i = Len(t_chunks)
    /\ Len(t_temp_files) = 1
    /\ files' = Renamed(files, t_temp_files[1], t_output_path)
    /\ t_result' = t_output_path
    /\ t_pc' = "done"
    /\ UNCHANGED <<t_text, t_service, t_i, t_chunks, t_temp_files, t_calls, t_ffmpeg, varsChunk, varsSpeakers, varsApp>>

\* NoAudioTextFile writing what was sent to the endpoint instead of the script.
NoAudioTextFile_enhanced ==
    /\ t_pc = "loop"
    /\ t_i = Len(t_chunks)
    /\ Len(t_temp_files) = 0
    /\ encodable(t_text)
    /\ files' = Written(files, TextPath(t_output_path),
                        TextFile(enhance_speech_dynamics(t_text, Voice)))
    /\ t_result' = TextPath(t_output_path)
    /\ t_pc' = "done"
    /\ UNCHANGED <<t_text, t_service, t_i, t_chunks, t_temp_files, t_calls, t_ffmpeg, varsChunk, varsSpeakers, varsApp>>

\* No fragment: the text is written to the text path, which is returned.
NoAudioTextFile ==
    /\ t_pc = "loop"
    /\ t_i = Len(t_chunks)
    /\ Len(t_temp_files) = 0
    /\ encodable(t_text)
    /\ files' = Written(files, TextPath(t_output_path), TextFile(t_text))
    /\ t_result' = TextPath(t_output_path)
    /\ t_pc' = "done"
    /\ UNCHANGED <<t_text, t_service, t_i, t_chunks, t_temp_files, t_calls, t_ffmpeg, varsChunk, varsSpeakers, varsApp>>

\* No fragment and a text that cannot be encoded: the text file is opened,
\* f.write(text) raises, and control passes to the except clause.
NoAudioTextFileRaises ==
    /\ t_pc = "loop"
    /\ t_i = Len(t_chunks)
    /\ Len(t_temp_files) = 0
    /\ ~encodable(t_text)
    /\ files' = Written(files, TextPath(t_output_path), EmptyFile)
    /\ t_pc' = "except"
    /\ UNCHANGED <<t_text, t_service, t_i, t_chunks, t_temp_files, t_calls, t_ffmpeg, t_result,
                   varsChunk, varsSpeakers, varsApp>>

\* The except clause of _generate_audio_openai: the text is written to the
\* text path, which is returned.
ExceptTextFile ==
    /\ t_pc = "except"
    /\ encodable(t_text)
    /\ files' = Written(files, TextPath(t_output_path), TextFile(t_text))
    /\ t_result' = TextPath(t_output_path)
    /\ t_pc' = "done"
    /\ UNCHANGED <<t_text, t_service, t_i, t_chunks, t_temp_files, t_calls, t_ffmpeg, varsChunk, varsSpeakers, varsApp>>

\* The except clause of _generate_audio_openai for a text that cannot be
\* encoded: the text file is opened and f.write(text) raises, out of
\* generate_audio.
ExceptTextFileRaises ==
    /\ t_pc = "except"
    /\ ~encodable(t_text)
    /\ files' = Written(files, TextPath(t_output_path), EmptyFile)
    /\ t_pc' = "raised"
    /\ UNCHANGED <<t_text, t_service, t_i, t_chunks, t_temp_files, t_calls, t_ffmpeg, t_result,
                   varsChunk, varsSpeakers, varsApp>>

\* generate_audio is called with self.service neither "openai" nor "local":
\* ValueError is raised.
UnsupportedService ==
    /\ t_pc = "idle"
    /\ t_service \notin {"openai", "local"}
    /\ t_pc' = "raised"
    /\ UNCHANGED <<t_text, t_service, t_i, t_chunks, t_temp_files, t_calls, t_ffmpeg, t_result,
                   files, varsChunk, varsSpeakers, varsApp>>

\* generate_audio is called and _generate_audio_local saves the text to a
\* temporary file.
GenerateAudioLocal ==
    /\ t_pc = "idle"
    /\ t_service = "local"
    /\ encodable(t_text)
    /\ files' = Written(files, TempFile, TextFile(t_text))
    /\ t_pc' = "say"
    /\ UNCHANGED <<t_text, t_service, t_i, t_chunks, t_temp_files, t_calls, t_ffmpeg, t_result,
                   varsChunk, varsSpeakers, varsApp>>

\* generate_audio is called and _generate_audio_local creates the temporary
\* file, but text.encode('utf-8') raises: control passes to the except clause
\* with the temporary file empty.
LocalEncodeRaises ==
    /\ t_pc = "idle"
    /\ t_service = "local"
    /\ ~encodable(t_text)
    /\ files' = Written(files, TempFile, EmptyFile)
    /\ t_pc' = "local_except"
    /\ UNCHANGED <<t_text, t_service, t_i, t_chunks, t_temp_files, t_calls, t_ffmpeg, t_result,
                   varsChunk, varsSpeakers, varsApp>>

\* The except clause of _generate_audio_local for a text that cannot be
\* encoded: the text file is opened and f.write(text) raises, the finally
\* clause removes the temporary file, and the exception leaves generate_audio.
LocalExceptRaises ==
    /\ t_pc = "local_except"
    /\ ~encodable(t_text)
    /\ files' = Removed(Written(files, TextPath(t_output_path), EmptyFile), TempFile)
    /\ t_pc' = "raised"
    /\ UNCHANGED <<t_text, t_service, t_i, t_chunks, t_temp_files, t_calls, t_ffmpeg, t_result,
                   varsChunk, varsSpeakers, varsApp>>

\* /usr/bin/say exists and succeeds: it writes output_path, which is returned;
\* the finally clause removes the temporary file.
LocalSayOk ==
    /\ t_pc = "say"
    /\ files' = Removed(Written(files, t_output_path, AudioFile(<<Fragment(0, t_text)>>)),
                        TempFile)
    /\ t_result' = t_output_path
    /\ t_pc' = "done"
    /\ UNCHANGED <<t_text, t_service, t_i, t_chunks, t_temp_files, t_calls, t_ffmpeg,
                   varsChunk, varsSpeakers, varsApp>>

\* /usr/bin/say exists and exits with failure, having written nothing
\* (check=True raises): the except clause writes the text to the text path,
\* which is returned; the finally clause removes the temporary file.
LocalSayFails ==
    /\ t_pc = "say"
    /\ files' = Removed(Written(files, TextPath(t_output_path), TextFile(t_text)), TempFile)
    /\ t_result' = TextPath(t_output_path)
    /\ t_pc' = "done"
    /\ UNCHANGED <<t_text, t_service, t_i, t_chunks, t_temp_files, t_calls, t_ffmpeg,
                   varsChunk, varsSpeakers, varsApp>>

\* The system is not posix or has no /usr/bin/say: the text is written to the
\* text path, which is returned; the finally clause removes the temporary file.
LocalNoSay ==
    /\ t_pc = "say"
    /\ files' = Removed(Written(files, TextPath(t_output_path), TextFile(t_text)), TempFile)
    /\ t_result' = TextPath(t_output_path)
    /\ t_pc' = "done"
    /\ UNCHANGED <<t_text, t_service, t_i, t_chunks, t_temp_files, t_calls, t_ffmpeg,
                   varsChunk, varsSpeakers, varsApp>>

NextTts ==
    \/ GenerateAudio
    \/ TtsOk
    \/ TtsErrorStatus
    \/ TtsRaises
    \/ CombineWriteList
    \/ FfmpegOk
    \/ FfmpegFails
    \/ CleanupTempFiles
    \/ RenameSingle
    \/ NoAudioTextFile
    \/ NoAudioTextFileRaises
    \/ ExceptTextFile
    \/ ExceptTextFileRaises
    \/ UnsupportedService
    \/ GenerateAudioLocal
    \/ LocalEncodeRaises
    \/ LocalExceptRaises
    \/ LocalSayOk
    \/ LocalSayFails
    \/ LocalNoSay

SpecTTS == InitTts /\ [][NextTts]_vars

\* ------------------------------------------------------------------ PdfToPodcastService and the web handlers

\* 1024 * 1024: uploads smaller than this are processed inline by /convert.
OneMiB == 1024 * 1024
\* Most pages of an uploaded document.
MaxPages == 3
\* chunk_size of _transform_to_podcast's text splitter (10000 in the code),
\* scaled to the documents of the model.
GenChunkSize == 1
\* max_tts_length of _generate_audio (3000 in the code), scaled likewise.
MaxTtsLength == 1

\* What page.extract_text() can give for a page: nothing (a scanned image) or text.
PageTexts == {<<>>, <<"a">>}

\* The page sequences of the uploaded documents: any pages up to two, and
\* the documents whose pages all hold text up to MaxPages.
PageSeqs ==
    SeqsUpTo(PageTexts, 2) \cup {[k \in 1..n |-> <<"a">>] : n \in 1..MaxPages}

\* The file names of the uploads, as sequences of characters: "a.pdf",
\* "a.PDF", "a.txt" and "pdf".
FileNames ==
    { <<"a", ".", "p", "d", "f">>, <<"a", ".", "P", "D", "F">>,
      <<"a", ".", "t", "x", "t">>, <<"p", "d", "f">> }

\* The uploads /convert can receive: the file name, bytes that parse as a PDF
\* or not, the pages, and the size in bytes.
Uploads ==
    [filename : FileNames, parsable : BOOLEAN, pages : PageSeqs,
     size : {OneMiB - 1, OneMiB}]

\* str.lower() over the characters of the file names.
lower(name) ==
    [k \in 1..Len(name) |->
        IF name[k] = "P" THEN "p"
        ELSE IF name[k] = "D" THEN "d"
        ELSE IF name[k] = "F" THEN "f"
        ELSE name[k]]

\* str.endswith(suffix)
endswith(name, suffix) ==
    /\ Len(name) >= Len(suffix)
    /\ SubSeq(name, Len(name) - Len(suffix) + 1, Len(name)) = suffix

\* file.filename.lower().endswith('.pdf')
is_pdf_filename(filename) == endswith(lower(filename), <<".", "p", "d", "f">>)

\* The bytes of an upload, as saved: what the PDF reader will find in them.
Content(upload) == [parsable |-> upload.parsable, pages |-> upload.pages, size |-> upload.size]

\* What the generation endpoint can return for a call.
LlmOutputs == {<<>>, <<"a">>}

RECURSIVE extract_pages(_)
\* The loop of _extract_text_from_pdf: text += page.extract_text() + "\n\n".
extract_pages(pages) ==
    IF pages = <<>> THEN <<>>
    ELSE Head(pages) \o <<NL, NL>> \o extract_pages(Tail(pages))

RECURSIVE split_blank_lines(_)
\* text.split("\n\n")
split_blank_lines(text) ==
    IF text = <<>> THEN << <<>> >>
    ELSE IF Len(text) >= 2 /\ text[1] = NL /\ text[2] = NL
         THEN << <<>> >> \o split_blank_lines(SubSeq(text, 3, Len(text)))
         ELSE LET rest == split_blank_lines(Tail(text))
              IN  << <<Head(text)>> \o Head(rest) >> \o Tail(rest)

RECURSIVE merge_splits(_, _, _, _)
\* The splitter's merge: the non-empty pieces are packed, in order, into chunks
\* of at most chunk_size characters (a longer piece is a chunk of its own).
merge_splits(pieces, chunks, current, chunk_size) ==
    IF pieces = <<>>
    THEN IF current # <<>> THEN Append(chunks, current) ELSE chunks
    ELSE LET piece == Head(pieces)
         IN  IF piece = <<>>
             THEN merge_splits(Tail(pieces), chunks, current, chunk_size)
             ELSE IF current = <<>>
             THEN merge_splits(Tail(pieces), chunks, piece, chunk_size)
             ELSE IF Len(current) + 2 + Len(piece) > chunk_size
             THEN merge_splits(Tail(pieces), Append(chunks, current), piece, chunk_size)
             ELSE merge_splits(Tail(pieces), chunks, current \o <<NL, NL>> \o piece,
                               chunk_size)

\* RecursiveCharacterTextSplitter(chunk_size, chunk_overlap).split_text(text), for
\* texts whose paragraphs hold neither a newline nor a space: the blank-line
\* separated pieces, merged up to chunk_size; no chunk is empty.
split_text(text, chunk_size) ==
    merge_splits(split_blank_lines(text), <<>>, <<>>, chunk_size)

\* Template with len(chunks) for len(chunks) - 1 in the test for the last chunk.
Template_off_by_one(i, n) ==
    IF i = 0 THEN "opening"
    ELSE IF i = n THEN "closing"
    ELSE "continuation"

\* Template with the test for the last chunk made before the test for the first.
Template_last_first(i, n) ==
    IF i = n - 1 THEN "closing"
    ELSE IF i = 0 THEN "opening"
    ELSE "continuation"

\* The instruction template _transform_to_podcast uses for chunk i of n:
\* "opening" is template, "closing" conclude_template and "continuation"
\* continue_template.
Template(i, n) ==
    IF i = 0 THEN "opening"
    ELSE IF i = n - 1 THEN "closing"
    ELSE "continuation"

\* What a template tells the model to write around the chunk's content:
\* template asks to begin with an introduction and to end with a conclusion,
\* conclude_template to continue and conclude, continue_template to continue
\* "without any introduction or conclusion".
Instructions(template) ==
    IF template = "opening" THEN {"introduction", "conclusion"}
    ELSE IF template = "closing" THEN {"continue", "conclusion"}
    ELSE {"continue"}

\* HoldsLoop with the TTS calls and the encoder awaited (an asynchronous HTTP
\* client and subprocess): synthesis suspends at each of them.
HoldsLoop_async(k) ==
    \/ a_pc[k] = "extract" /\ a_mode[k] = "inline"
    \/ a_pc[k] = "transform" /\ Len(p_processed[k]) = Len(p_chunks[k])
    \/ a_pc[k] \in {"returned", "raised"}

\* The handlers and create_podcast are coroutines of one event loop: job k
\* holds the loop from the return of one awaited call to its next await.  The
\* awaits that suspend are the generation calls (chain.ainvoke) and, for a
\* background job, the wait for its task to start; requests.post and
\* subprocess.run block the loop, and nothing is awaited from the last
\* generation call to the end of the handler or task.
HoldsLoop(k) ==
    \/ a_pc[k] = "extract" /\ a_mode[k] = "inline"
    \/ a_pc[k] = "transform" /\ Len(p_processed[k]) = Len(p_chunks[k])
    \/ a_pc[k] \in {"tts", "ffmpeg", "cleanup", "rm_pdf", "returned", "raised"}

\* Job j can take a step: no other job holds the event loop.
LoopFreeFor(j) == \A k \in Jobs \ {j} : ~HoldsLoop(k)

\* No request has arrived, no file exists.
Init ==
    /\ ChunkIdle
    /\ SpeakersIdle
    /\ TtsIdle
    /\ AppIdle
    /\ files = NoFiles

\* A client sends a /convert request with an upload.
SendConvert(j) ==
    /\ a_pc[j] = "new"
    /\ \E upload \in Uploads : a_req' = [a_req EXCEPT ![j] = upload]
    /\ a_pc' = [a_pc EXCEPT ![j] = "sent"]
    /\ UNCHANGED <<a_mode, a_tasks, a_http, p_text, p_chunks, p_processed, p_llm_calls, p_scripted,
                   p_script, p_text_chunks, p_audio_chunks, p_tts_calls, p_error, p_result,
                   p_pdf_removes, files, varsChunk, varsSpeakers, varsTts, h_resp>>

\* /convert with the upload saved before the file name is tested.
ConvertRejected_saves(j) ==
    /\ LoopFreeFor(j)
    /\ a_pc[j] = "sent"
    /\ ~is_pdf_filename(a_req[j].filename)
    /\ files' = Written(files, PdfPath(j), [kind |-> "pdf", data |-> Content(a_req[j])])
    /\ a_http' = [a_http EXCEPT ![j] = "400"]
    /\ a_pc' = [a_pc EXCEPT ![j] = "rejected"]
    /\ a_req' = [a_req EXCEPT ![j] = NoRequest]
    /\ UNCHANGED <<a_mode, a_tasks, p_text, p_chunks, p_processed, p_llm_calls, p_scripted, p_script,
                   p_text_chunks, p_audio_chunks, p_tts_calls, p_error, p_result,
                   p_pdf_removes, varsChunk, varsSpeakers, varsTts, h_resp>>

\* /convert for a file whose name does not end in .pdf: HTTP 400.
ConvertRejected(j) ==
    /\ LoopFreeFor(j)
    /\ a_pc[j] = "sent"
    /\ ~is_pdf_filename(a_req[j].filename)
    /\ a_http' = [a_http EXCEPT ![j] = "400"]
    /\ a_pc' = [a_pc EXCEPT ![j] = "rejected"]
    /\ a_req' = [a_req EXCEPT ![j] = NoRequest]
    /\ UNCHANGED <<a_mode, a_tasks, p_text, p_chunks, p_processed, p_llm_calls, p_scripted, p_script,
                   p_text_chunks, p_audio_chunks, p_tts_calls, p_error, p_result,
                   p_pdf_removes, files, varsChunk, varsSpeakers, varsTts, h_resp>>

\* /convert with the size test of the upload as file_size <= 1024 * 1024.
Convert_le(j) ==
    /\ LoopFreeFor(j)
    /\ a_pc[j] = "sent"
    /\ is_pdf_filename(a_req[j].filename)
    /\ files' = Written(files, PdfPath(j), [kind |-> "pdf", data |-> Content(a_req[j])])
    /\ IF a_req[j].size <= OneMiB
       THEN /\ a_mode' = [a_mode EXCEPT ![j] = "inline"]
            /\ UNCHANGED <<a_http, a_tasks>>
       ELSE /\ a_mode' = [a_mode EXCEPT ![j] = "background"]
            /\ a_tasks' = [a_tasks EXCEPT ![j] = @ + 1]
            /\ a_http' = [a_http EXCEPT ![j] = "processing"]
    /\ a_pc' = [a_pc EXCEPT ![j] = "extract"]
    /\ a_req' = [a_req EXCEPT ![j] = NoRequest]
    /\ UNCHANGED <<p_text, p_chunks, p_processed, p_llm_calls, p_scripted, p_script,
                   p_text_chunks, p_audio_chunks, p_tts_calls, p_error, p_result,
                   p_pdf_removes, varsChunk, varsSpeakers, varsTts, h_resp>>

\* /convert for a .pdf file: the job id j is drawn, the upload is saved, and
\* by the size of the saved file create_podcast is awaited inline or added to
\* background_tasks, in which case /convert answers "processing" at once.
Convert(j) ==
    /\ LoopFreeFor(j)
    /\ a_pc[j] = "sent"
    /\ is_pdf_filename(a_req[j].filename)
    /\ files' = Written(files, PdfPath(j), [kind |-> "pdf", data |-> Content(a_req[j])])
    /\ IF a_req[j].size < OneMiB
       THEN /\ a_mode' = [a_mode EXCEPT ![j] = "inline"]
            /\ UNCHANGED <<a_http, a_tasks>>
       ELSE /\ a_mode' = [a_mode EXCEPT ![j] = "background"]
            /\ a_tasks' = [a_tasks EXCEPT ![j] = @ + 1]
            /\ a_http' = [a_http EXCEPT ![j] = "processing"]
    /\ a_pc' = [a_pc EXCEPT ![j] = "extract"]
    /\ a_req' = [a_req EXCEPT ![j] = NoRequest]
    /\ UNCHANGED <<p_text, p_chunks, p_processed, p_llm_calls, p_scripted, p_script,
                   p_text_chunks, p_audio_chunks, p_tts_calls, p_error, p_result,
                   p_pdf_removes, varsChunk, varsSpeakers, varsTts, h_resp>>

\* Extract without the failure of the PDF reader: an unparsable file gives the
\* text of whatever pages were read.
Extract_unchecked(j) ==
    /\ LoopFreeFor(j)
    /\ a_pc[j] = "extract"
    /\ Exists(PdfPath(j))
    /\ LET text == extract_pages(files[PdfPath(j)].data.pages)
       IN  /\ p_text' = [p_text EXCEPT ![j] = text]
           /\ p_chunks' = [p_chunks EXCEPT ![j] = split_text(text, GenChunkSize)]
    /\ a_pc' = [a_pc EXCEPT ![j] = "transform"]
    /\ UNCHANGED <<a_mode, a_tasks, a_http, p_processed, p_llm_calls, p_scripted, p_script,
                   p_text_chunks, p_audio_chunks, p_tts_calls, p_error, p_result,
                   p_pdf_removes, files, varsChunk, varsSpeakers, varsTts,
                   a_req, h_resp>>

\* Extract with the PDF removed as soon as its text has been read.
Extract_removes_pdf(j) ==
    /\ LoopFreeFor(j)
    /\ a_pc[j] = "extract"
    /\ Exists(PdfPath(j))
    /\ files[PdfPath(j)].data.parsable
    /\ LET text == extract_pages(files[PdfPath(j)].data.pages)
       IN  /\ p_text' = [p_text EXCEPT ![j] = text]
           /\ p_chunks' = [p_chunks EXCEPT ![j] = split_text(text, GenChunkSize)]
    /\ a_pc' = [a_pc EXCEPT ![j] = "transform"]
    /\ files' = Removed(files, PdfPath(j))
    /\ UNCHANGED <<a_mode, a_tasks, a_http, p_processed, p_llm_calls, p_scripted, p_script,
                   p_text_chunks, p_audio_chunks, p_tts_calls, p_error, p_result,
                   p_pdf_removes, varsChunk, varsSpeakers, varsTts,
                   a_req, h_resp>>

\* create_podcast starts: _extract_text_from_pdf reads the PDF, and
\* _transform_to_podcast splits the text.
Extract(j) ==
    /\ LoopFreeFor(j)
    /\ a_pc[j] = "extract"
    /\ Exists(PdfPath(j))
    /\ files[PdfPath(j)].data.parsable
    /\ LET text == extract_pages(files[PdfPath(j)].data.pages)
       IN  /\ p_text' = [p_text EXCEPT ![j] = text]
           /\ p_chunks' = [p_chunks EXCEPT ![j] = split_text(text, GenChunkSize)]
    /\ a_pc' = [a_pc EXCEPT ![j] = "transform"]
    /\ UNCHANGED <<a_mode, a_tasks, a_http, p_processed, p_llm_calls, p_scripted, p_script,
                   p_text_chunks, p_audio_chunks, p_tts_calls, p_error, p_result,
                   p_pdf_removes, files, varsChunk, varsSpeakers, varsTts,
                   a_req, h_resp>>

\* _extract_text_from_pdf raises: the file is missing or does not parse.
ExtractRaises(j) ==
    /\ LoopFreeFor(j)
    /\ a_pc[j] = "extract"
    /\ ~Exists(PdfPath(j)) \/ ~files[PdfPath(j)].data.parsable
    /\ p_error' = [p_error EXCEPT ![j] = "extract"]
    /\ a_pc' = [a_pc EXCEPT ![j] = "raised"]
    /\ UNCHANGED <<a_mode, a_tasks, a_http, p_text, p_chunks, p_processed, p_llm_calls, p_scripted, p_script,
                   p_text_chunks, p_audio_chunks, p_tts_calls, p_result,
                   p_pdf_removes, files, varsChunk, varsSpeakers, varsTts,
                   a_req, h_resp>>

\* The generation call for the next chunk returns.
LlmOk(j) ==
    /\ LoopFreeFor(j)
    /\ a_pc[j] = "transform"
    /\ Len(p_processed[j]) < Len(p_chunks[j])
    /\ LET i == Len(p_processed[j])
       IN  \E out \in LlmOutputs :
              /\ p_llm_calls' = [p_llm_calls EXCEPT ![j] =
                     Append(@, [chunk |-> i, template |-> Template(i, Len(p_chunks[j])),
                                input |-> p_chunks[j][i + 1], outcome |-> "ok",
                                output |-> out])]
              /\ p_processed' = [p_processed EXCEPT ![j] = Append(@, out)]
    /\ UNCHANGED <<a_pc, a_mode, a_tasks, a_http, p_text, p_chunks, p_scripted, p_script,
                   p_text_chunks, p_audio_chunks, p_tts_calls, p_error, p_result,
                   p_pdf_removes, files, varsChunk, varsSpeakers, varsTts,
                   a_req, h_resp>>

\* LlmRaises with the exception caught per chunk: the chunk's output is left
\* empty and the loop goes on.
LlmRaises_skips(j) ==
    /\ LoopFreeFor(j)
    /\ a_pc[j] = "transform"
    /\ Len(p_processed[j]) < Len(p_chunks[j])
    /\ LET i == Len(p_processed[j])
       IN  p_llm_calls' = [p_llm_calls EXCEPT ![j] =
                  Append(@, [chunk |-> i, template |-> Template(i, Len(p_chunks[j])),
                             input |-> p_chunks[j][i + 1], outcome |-> "raise",
                             output |-> <<>>])]
    /\ p_processed' = [p_processed EXCEPT ![j] = Append(@, <<>>)]
    /\ UNCHANGED <<a_pc, p_error, a_mode, a_tasks, a_http, p_text, p_chunks, p_scripted, p_script,
                   p_text_chunks, p_audio_chunks, p_tts_calls, p_result,
                   p_pdf_removes, files, varsChunk, varsSpeakers, varsTts,
                   a_req, h_resp>>

\* The generation call for the next chunk raises: _transform_to_podcast raises.
LlmRaises(j) ==
    /\ LoopFreeFor(j)
    /\ a_pc[j] = "transform"
    /\ Len(p_processed[j]) < Len(p_chunks[j])
    /\ LET i == Len(p_processed[j])
       IN  p_llm_calls' = [p_llm_calls EXCEPT ![j] =
                  Append(@, [chunk |-> i, template |-> Template(i, Len(p_chunks[j])),
                             input |-> p_chunks[j][i + 1], outcome |-> "raise",
                             output |-> <<>>])]
    /\ p_error' = [p_error EXCEPT ![j] = "transform"]
    /\ a_pc' = [a_pc EXCEPT ![j] = "raised"]
    /\ UNCHANGED <<a_mode, a_tasks, a_http, p_text, p_chunks, p_processed, p_scripted, p_script,
                   p_text_chunks, p_audio_chunks, p_tts_calls, p_result,
                   p_pdf_removes, files, varsChunk, varsSpeakers, varsTts,
                   a_req, h_resp>>

\* Scripted with the outputs joined by a single newline.
Scripted_single_newline(j) ==
    /\ LoopFreeFor(j)
    /\ a_pc[j] = "transform"
    /\ Len(p_processed[j]) = Len(p_chunks[j])
    /\ p_scripted' = [p_scripted EXCEPT ![j] = TRUE]
    /\ LET script == join(<<NL>>, p_processed[j])
       IN  /\ p_script' = [p_script EXCEPT ![j] = script]
           /\ p_text_chunks' = [p_text_chunks EXCEPT ![j] =
                  split_for_tts(script, MaxTtsLength)]
    /\ a_pc' = [a_pc EXCEPT ![j] = "tts"]
    /\ UNCHANGED <<a_mode, a_tasks, a_http, p_text, p_chunks, p_processed, p_llm_calls,
                   p_audio_chunks, p_tts_calls, p_error, p_result,
                   p_pdf_removes, files, varsChunk, varsSpeakers, varsTts,
                   a_req, h_resp>>

\* Every chunk is processed: _transform_to_podcast returns the outputs joined
\* by a blank line, and _generate_audio splits that script.
Scripted(j) ==
    /\ LoopFreeFor(j)
    /\ a_pc[j] = "transform"
    /\ Len(p_processed[j]) = Len(p_chunks[j])
    /\ p_scripted' = [p_scripted EXCEPT ![j] = TRUE]
    /\ LET script == join(<<NL, NL>>, p_processed[j])
       IN  /\ p_script' = [p_script EXCEPT ![j] = script]
           /\ p_text_chunks' = [p_text_chunks EXCEPT ![j] =
                  split_for_tts(script, MaxTtsLength)]
    /\ a_pc' = [a_pc EXCEPT ![j] = "tts"]
    /\ UNCHANGED <<a_mode, a_tasks, a_http, p_text, p_chunks, p_processed, p_llm_calls,
                   p_audio_chunks, p_tts_calls, p_error, p_result,
                   p_pdf_removes, files, varsChunk, varsSpeakers, varsTts,
                   a_req, h_resp>>

\* _generate_audio: the call for the next chunk returns status 200 and the
\* fragment is saved.
SvcTtsOk(j) ==
    /\ LoopFreeFor(j)
    /\ a_pc[j] = "tts"
    /\ Len(p_tts_calls[j]) < Len(p_text_chunks[j])
    /\ LET i == Len(p_tts_calls[j])
           temp_chunk_path == ChunkPath(AudioPath(j), Len(p_audio_chunks[j]))
       IN  /\ files' = Written(files, temp_chunk_path,
                               AudioFile(<<Fragment(i, p_text_chunks[j][i + 1])>>))
           /\ p_audio_chunks' = [p_audio_chunks EXCEPT ![j] = Append(@, temp_chunk_path)]
           /\ p_tts_calls' = [p_tts_calls EXCEPT ![j] =
                  Append(@, [chunk |-> i, outcome |-> "200"])]
    /\ UNCHANGED <<a_pc, a_mode, a_tasks, a_http, p_text, p_chunks, p_processed, p_llm_calls,
                   p_scripted, p_script, p_text_chunks, p_error, p_result,
                   p_pdf_removes, varsChunk, varsSpeakers, varsTts,
                   a_req, h_resp>>

\* _generate_audio: the call for the next chunk returns another status; the
\* exception raised for it leaves _generate_audio.
SvcTtsErrorStatus(j) ==
    /\ LoopFreeFor(j)
    /\ a_pc[j] = "tts"
    /\ Len(p_tts_calls[j]) < Len(p_text_chunks[j])
    /\ p_tts_calls' = [p_tts_calls EXCEPT ![j] =
          Append(@, [chunk |-> Len(@), outcome |-> "error"])]
    /\ p_error' = [p_error EXCEPT ![j] = "audio"]
    /\ a_pc' = [a_pc EXCEPT ![j] = "raised"]
    /\ UNCHANGED <<a_mode, a_tasks, a_http, p_text, p_chunks, p_processed, p_llm_calls,
                   p_scripted, p_script, p_text_chunks, p_audio_chunks, p_result,
                   p_pdf_removes, files, varsChunk, varsSpeakers, varsTts,
                   a_req, h_resp>>

\* _generate_audio: the call for the next chunk raises (the endpoint is
\* unreachable); the exception leaves _generate_audio.
SvcTtsRaises(j) ==
    /\ LoopFreeFor(j)
    /\ a_pc[j] = "tts"
    /\ Len(p_tts_calls[j]) < Len(p_text_chunks[j])
    /\ p_tts_calls' = [p_tts_calls EXCEPT ![j] =
          Append(@, [chunk |-> Len(@), outcome |-> "raise"])]
    /\ p_error' = [p_error EXCEPT ![j] = "audio"]
    /\ a_pc' = [a_pc EXCEPT ![j] = "raised"]
    /\ UNCHANGED <<a_mode, a_tasks, a_http, p_text, p_chunks, p_processed, p_llm_calls,
                   p_scripted, p_script, p_text_chunks, p_audio_chunks, p_result,
                   p_pdf_removes, files, varsChunk, varsSpeakers, varsTts,
                   a_req, h_resp>>

\* _generate_audio with several fragments: _combine_audio_files writes the
\* encoder's file list.
SvcCombineWriteList(j) ==
    /\ LoopFreeFor(j)
    /\ a_pc[j] = "tts"
    /\ Len(p_tts_calls[j]) = Len(p_text_chunks[j])
    /\ Len(p_audio_chunks[j]) > 1
    /\ files' = Written(files, FileList, ListFile(p_audio_chunks[j]))
    /\ a_pc' = [a_pc EXCEPT ![j] = "ffmpeg"]
    /\ UNCHANGED <<a_mode, a_tasks, a_http, p_text, p_chunks, p_processed, p_llm_calls,
                   p_scripted, p_script, p_text_chunks, p_audio_chunks, p_tts_calls, p_error,
                   p_result, p_pdf_removes, varsChunk, varsSpeakers, varsTts,
                   a_req, h_resp>>

\* The encoder succeeds: it writes output_path from the files the list names,
\* and _combine_audio_files removes the list.
SvcFfmpegOk(j) ==
    /\ LoopFreeFor(j)
    /\ a_pc[j] = "ffmpeg"
    /\ Exists(FileList)
    /\ \A k \in 1..Len(files[FileList].data) : Exists(files[FileList].data[k])
    /\ files' = Removed(Written(files, AudioPath(j),
                                AudioFile(Concat(files, files[FileList].data))),
                        FileList)
    /\ a_pc' = [a_pc EXCEPT ![j] = "cleanup"]
    /\ UNCHANGED <<a_mode, a_tasks, a_http, p_text, p_chunks, p_processed, p_llm_calls,
                   p_scripted, p_script, p_text_chunks, p_audio_chunks, p_tts_calls, p_error,
                   p_result, p_pdf_removes, varsChunk, varsSpeakers, varsTts,
                   a_req, h_resp>>

\* The encoder is missing or exits with failure (check=True raises): the
\* exception leaves _combine_audio_files and _generate_audio.
SvcFfmpegFails(j) ==
    /\ LoopFreeFor(j)
    /\ a_pc[j] = "ffmpeg"
    /\ p_error' = [p_error EXCEPT ![j] = "audio"]
    /\ a_pc' = [a_pc EXCEPT ![j] = "raised"]
    /\ UNCHANGED <<a_mode, a_tasks, a_http, p_text, p_chunks, p_processed, p_llm_calls,
                   p_scripted, p_script, p_text_chunks, p_audio_chunks, p_tts_calls,
                   p_result, p_pdf_removes, files, varsChunk, varsSpeakers, varsTts,
                   a_req, h_resp>>

\* After _combine_audio_files: the fragments that still exist are removed.
SvcCleanup(j) ==
    /\ LoopFreeFor(j)
    /\ a_pc[j] = "cleanup"
    /\ files' = RemovedAll(files, p_audio_chunks[j])
    /\ a_pc' = [a_pc EXCEPT ![j] = "rm_pdf"]
    /\ UNCHANGED <<a_mode, a_tasks, a_http, p_text, p_chunks, p_processed, p_llm_calls,
                   p_scripted, p_script, p_text_chunks, p_audio_chunks, p_tts_calls, p_error,
                   p_result, p_pdf_removes, varsChunk, varsSpeakers, varsTts,
                   a_req, h_resp>>

\* _generate_audio with one fragment: it is renamed to output_path.
SvcRenameSingle(j) ==
    /\ LoopFreeFor(j)
    /\ a_pc[j] = "tts"
    /\ Len(p_tts_calls[j]) = Len(p_text_chunks[j])
    /\ Len(p_audio_chunks[j]) = 1
    /\ files' = Renamed(files, p_audio_chunks[j][1], AudioPath(j))
    /\ a_pc' = [a_pc EXCEPT ![j] = "rm_pdf"]
    /\ UNCHANGED <<a_mode, a_tasks, a_http, p_text, p_chunks, p_processed, p_llm_calls,
                   p_scripted, p_script, p_text_chunks, p_audio_chunks, p_tts_calls, p_error,
                   p_result, p_pdf_removes, varsChunk, varsSpeakers, varsTts,
                   a_req, h_resp>>

\* _generate_audio with no fragment (the script has no chunk): it returns
\* having written nothing.
SvcNoFragment(j) ==
    /\ LoopFreeFor(j)
    /\ a_pc[j] = "tts"
    /\ Len(p_tts_calls[j]) = Len(p_text_chunks[j])
    /\ Len(p_audio_chunks[j]) = 0
    /\ a_pc' = [a_pc EXCEPT ![j] = "rm_pdf"]
    /\ UNCHANGED <<a_mode, a_tasks, a_http, p_text, p_chunks, p_processed, p_llm_calls,
                   p_scripted, p_script, p_text_chunks, p_audio_chunks, p_tts_calls, p_error,
                   p_result, p_pdf_removes, files, varsChunk, varsSpeakers, varsTts,
                   a_req, h_resp>>

\* The end of create_podcast: the PDF is removed if it exists and
\* output_audio_path is returned.
RemovePdfAndReturn(j) ==
    /\ LoopFreeFor(j)
    /\ a_pc[j] = "rm_pdf"
    /\ IF Exists(PdfPath(j))
       THEN /\ files' = Removed(files, PdfPath(j))
            /\ p_pdf_removes' = [p_pdf_removes EXCEPT ![j] = @ + 1]
       ELSE UNCHANGED <<files, p_pdf_removes>>
    /\ p_result' = [p_result EXCEPT ![j] = AudioPath(j)]
    /\ a_pc' = [a_pc EXCEPT ![j] = "returned"]
    /\ UNCHANGED <<a_mode, a_tasks, a_http, p_text, p_chunks, p_processed, p_llm_calls,
                   p_scripted, p_script, p_text_chunks, p_audio_chunks, p_tts_calls, p_error,
                   varsChunk, varsSpeakers, varsTts,
                   a_req, h_resp>>

\* /convert, inline, after create_podcast returned: the transcript is
\* answered for a .txt path, the audio file otherwise.
ConvertRespond(j) ==
    /\ LoopFreeFor(j)
    /\ a_pc[j] = "returned"
    /\ a_mode[j] = "inline"
    /\ a_http' = [a_http EXCEPT ![j] =
          IF p_result[j].ext = "txt" THEN "completed_as_text" ELSE "file_response"]
    /\ a_pc' = [a_pc EXCEPT ![j] = "done"]
    /\ UNCHANGED <<a_mode, a_tasks, p_text, p_chunks, p_processed, p_llm_calls, p_scripted, p_script,
                   p_text_chunks, p_audio_chunks, p_tts_calls, p_error, p_result,
                   p_pdf_removes, files, varsChunk, varsSpeakers, varsTts,
                   a_req, h_resp>>

\* The except clause of /convert without the removal of the PDF.
ConvertExcept_keeps_pdf(j) ==
    /\ LoopFreeFor(j)
    /\ a_pc[j] = "raised"
    /\ a_mode[j] = "inline"
    /\ a_http' = [a_http EXCEPT ![j] = "500"]
    /\ a_pc' = [a_pc EXCEPT ![j] = "done"]
    /\ UNCHANGED <<a_mode, a_tasks, p_text, p_chunks, p_processed, p_llm_calls, p_scripted, p_script,
                   p_text_chunks, p_audio_chunks, p_tts_calls, p_error, p_result,
                   p_pdf_removes, files, varsChunk, varsSpeakers, varsTts,
                   a_req, h_resp>>

\* /convert, inline, after create_podcast raised: the except clause removes
\* the PDF if it exists and answers HTTP 500.
ConvertExcept(j) ==
    /\ LoopFreeFor(j)
    /\ a_pc[j] = "raised"
    /\ a_mode[j] = "inline"
    /\ IF Exists(PdfPath(j))
       THEN /\ files' = Removed(files, PdfPath(j))
            /\ p_pdf_removes' = [p_pdf_removes EXCEPT ![j] = @ + 1]
       ELSE UNCHANGED <<files, p_pdf_removes>>
    /\ a_http' = [a_http EXCEPT ![j] = "500"]
    /\ a_pc' = [a_pc EXCEPT ![j] = "done"]
    /\ UNCHANGED <<a_mode, a_tasks, p_text, p_chunks, p_processed, p_llm_calls, p_scripted, p_script,
                   p_text_chunks, p_audio_chunks, p_tts_calls, p_error, p_result,
                   varsChunk, varsSpeakers, varsTts,
                   a_req, h_resp>>

\* The background task ends, create_podcast having returned or raised: nothing
\* in the application handles either.
BackgroundTaskEnds(j) ==
    /\ LoopFreeFor(j)
    /\ a_pc[j] \in {"returned", "raised"}
    /\ a_mode[j] = "background"
    /\ a_pc' = [a_pc EXCEPT ![j] = "done"]
    /\ UNCHANGED <<a_mode, a_tasks, a_http, p_text, p_chunks, p_processed, p_llm_calls, p_scripted, p_script,
                   p_text_chunks, p_audio_chunks, p_tts_calls, p_error, p_result,
                   p_pdf_removes, files, varsChunk, varsSpeakers, varsTts,
                   a_req, h_resp>>

\* check_status(job_id): what /status answers.
check_status(job_id) ==
    IF Exists(AudioPath(job_id)) THEN "completed"
    ELSE IF Exists(PdfPath(job_id)) THEN "processing"
    ELSE "not_found"

\* download_podcast(job_id): what /download answers.
download_podcast(job_id) ==
    IF Exists(AudioPath(job_id)) THEN "audio"
    ELSE IF Exists(TextPath(AudioPath(job_id))) THEN "transcript"
    ELSE "not_found"

\* No coroutine holds the event loop: a request can be handled.
LoopFree == \A k \in Jobs : ~HoldsLoop(k)

\* /status/{job_id} is handled.
CheckStatus(j) ==
    /\ LoopFree
    /\ h_resp' = [endpoint |-> "status", job_id |-> j, answer |-> check_status(j),
                  body |-> NoBody]
    /\ UNCHANGED <<a_pc, a_mode, a_tasks, a_http, p_text, p_chunks, p_processed, p_llm_calls,
                   p_scripted, p_script, p_text_chunks, p_audio_chunks, p_tts_calls,
                   p_error, p_result, p_pdf_removes, a_req, files, varsChunk, varsSpeakers, varsTts>>

\* /download/{job_id} is handled: the audio file, else the transcript, else 404.
DownloadPodcast(j) ==
    /\ LoopFree
    /\ h_resp' = [endpoint |-> "download", job_id |-> j, answer |-> download_podcast(j),
                  body |-> IF Exists(AudioPath(j)) THEN files[AudioPath(j)]
                           ELSE IF Exists(TextPath(AudioPath(j)))
                                THEN files[TextPath(AudioPath(j))]
                                ELSE NoBody]
    /\ UNCHANGED <<a_pc, a_mode, a_tasks, a_http, p_text, p_chunks, p_processed, p_llm_calls,
                   p_scripted, p_script, p_text_chunks, p_audio_chunks, p_tts_calls,
                   p_error, p_result, p_pdf_removes, a_req, files, varsChunk, varsSpeakers, varsTts>>

Next ==
    \E j \in Jobs :
        \/ SendConvert(j)
        \/ ConvertRejected(j)
        \/ Convert(j)
        \/ Extract(j)
        \/ ExtractRaises(j)
        \/ LlmOk(j)
        \/ LlmRaises(j)
        \/ Scripted(j)
        \/ SvcTtsOk(j)
        \/ SvcTtsErrorStatus(j)
        \/ SvcTtsRaises(j)
        \/ SvcCombineWriteList(j)
        \/ SvcFfmpegOk(j)
        \/ SvcFfmpegFails(j)
        \/ SvcCleanup(j)
        \/ SvcRenameSingle(j)
        \/ SvcNoFragment(j)
        \/ RemovePdfAndReturn(j)
        \/ ConvertRespond(j)
        \/ ConvertExcept(j)
        \/ BackgroundTaskEnds(j)

Spec == Init /\ [][Next]_vars

\* The job the requests of NextHttp are about; the other identifier is one
\* that /convert never issued.
IssuedJobs == {"j1"}

\* One job and the /status and /download requests of its clients, for any id.
NextHttp ==
    \/ \E j \in IssuedJobs :
          \/ SendConvert(j)
          \/ ConvertRejected(j)
          \/ Convert(j)
          \/ Extract(j)
          \/ ExtractRaises(j)
          \/ LlmOk(j)
          \/ LlmRaises(j)
          \/ Scripted(j)
          \/ SvcTtsOk(j)
          \/ SvcTtsErrorStatus(j)
          \/ SvcTtsRaises(j)
          \/ SvcCombineWriteList(j)
          \/ SvcFfmpegOk(j)
          \/ SvcFfmpegFails(j)
          \/ SvcCleanup(j)
          \/ SvcRenameSingle(j)
          \/ SvcNoFragment(j)
          \/ RemovePdfAndReturn(j)
          \/ ConvertRespond(j)
          \/ ConvertExcept(j)
          \/ BackgroundTaskEnds(j)
    \/ \E j \in Jobs :
          \/ CheckStatus(j)
          \/ DownloadPodcast(j)

SpecHttp == Init /\ [][NextHttp]_vars

\* ------------------------------------------------------------------ pipeline claims

\* C1: a job whose extraction and script generation succeeded ends with an
\* audio or a text artifact and with no error raised by create_podcast (stated
\* for the jobs that made a TTS call).
C1_SynthesisNeverFatal ==
    \A j \in Jobs :
        (a_pc[j] = "done" /\ p_scripted[j] /\ p_tts_calls[j] # <<>>) =>
            /\ p_error[j] = "none"
            /\ Exists(AudioPath(j)) \/ Exists(TextPath(AudioPath(j)))

\* C5: whenever create_podcast has returned a path, a file exists at that path.
C5_ReturnedPathExists ==
    \A j \in Jobs : p_result[j] # NoPath => Exists(p_result[j])

\* C6: in a job whose extraction and script generation succeeded, the PDF is
\* not removed while synthesis is in progress, and once the job has ended it
\* has been removed exactly once.
C6_PdfDeletedOnceAfterSynthesis ==
    \A j \in Jobs :
        p_scripted[j] =>
            /\ a_pc[j] \in {"tts", "ffmpeg", "cleanup"} =>
                  (p_pdf_removes[j] = 0 /\ Exists(PdfPath(j)))
            /\ a_pc[j] = "done" => p_pdf_removes[j] = 1

\* C7: once a job whose pipeline raised has ended, inline or in the
\* background, its PDF is deleted and /status does not answer "processing".
C7_FailedJobPdfDeleted ==
    \A j \in Jobs :
        (a_pc[j] = "done" /\ p_error[j] # "none") =>
            /\ ~Exists(PdfPath(j))
            /\ check_status(j) # "processing"

\* C12: for n >= 2 chunks the template of a generation call depends on the
\* chunk's position only (first: opening, last: closing, between: continuation),
\* each chunk is sent in one call under one template, and the input of a call
\* is its chunk alone, with no earlier output in it.
C12_TemplateByPosition ==
    \A j \in Jobs :
        LET n == Len(p_chunks[j])
            calls == p_llm_calls[j]
        IN  n >= 2 =>
                /\ Len(calls) <= n
                /\ \A k \in 1..Len(calls) :
                      /\ calls[k].chunk = k - 1
                      /\ calls[k].input = p_chunks[j][k]
                      /\ k = 1 => calls[k].template = "opening"
                      /\ k = n => calls[k].template = "closing"
                      /\ (1 < k /\ k < n) => calls[k].template = "continuation"

\* A job of three chunks whose three calls returned, the first one with a
\* non-empty output.
C12_Witness ==
    \E j \in Jobs :
        /\ Len(p_chunks[j]) = 3
        /\ Len(p_llm_calls[j]) = 3
        /\ p_llm_calls[j][1].output # <<>>
        /\ p_scripted[j]

\* C13: for a text of one chunk there is one generation call, its template
\* asks for both an introduction and a conclusion, it is neither the closing
\* nor the continuation template, and the script returned is that call's output.
C13_SingleChunk ==
    \A j \in Jobs :
        LET calls == p_llm_calls[j]
        IN  Len(p_chunks[j]) = 1 =>
                /\ Len(calls) <= 1
                /\ \A k \in 1..Len(calls) :
                      /\ {"introduction", "conclusion"} \subseteq Instructions(calls[k].template)
                      /\ calls[k].template \notin {"closing", "continuation"}
                /\ p_scripted[j] =>
                      /\ Len(calls) = 1
                      /\ p_script[j] = calls[1].output

\* A job of one chunk whose script, not empty, has been returned.
C13_Witness ==
    \E j \in Jobs :
        /\ Len(p_chunks[j]) = 1
        /\ p_scripted[j]
        /\ p_script[j] # <<>>

RECURSIVE OutputsFrom(_, _)
\* The outputs of the calls from the k-th on, in the order of the calls, with a
\* blank line between one and the next.
OutputsFrom(calls, k) ==
    IF k > Len(calls) THEN <<>>
    ELSE IF k = Len(calls) THEN calls[k].output
    ELSE calls[k].output \o <<NL, NL>> \o OutputsFrom(calls, k + 1)

\* C14: when the script of a text of n chunks has been returned, n generation
\* calls were made, the k-th of them for chunk k - 1, all returned, and the
\* script is their outputs in that order with a blank line between them.
C14_CallsAndJoin ==
    \A j \in Jobs :
        LET calls == p_llm_calls[j]
        IN  /\ \A k \in 1..Len(calls) :
                  /\ calls[k].chunk = k - 1
                  /\ calls[k].input = p_chunks[j][k]
            /\ p_scripted[j] =>
                  /\ Len(calls) = Len(p_chunks[j])
                  /\ \A k \in 1..Len(calls) : calls[k].outcome = "ok"
                  /\ p_script[j] = OutputsFrom(calls, 1)

\* The script of three chunks has been returned, the first output being empty
\* and the second not.
C14_Witness ==
    \E j \in Jobs :
        /\ p_scripted[j]
        /\ Len(p_chunks[j]) = 3
        /\ p_llm_calls[j][1].output = <<>>
        /\ p_llm_calls[j][2].output # <<>>

\* C15: a generation call that raises is the last call of its job: no later
\* chunk is sent, no script is returned, create_podcast raises the
\* transformation error (answered as HTTP 500 when /convert awaits it), no TTS
\* call is made and neither an audio nor a text file is written for the job.
C15_GenerationFailureAborts ==
    \A j \in Jobs :
        \A k \in 1..Len(p_llm_calls[j]) :
            p_llm_calls[j][k].outcome = "raise" =>
                /\ k = Len(p_llm_calls[j])
                /\ a_pc[j] \in {"raised", "done"}
                /\ p_error[j] = "transform"
                /\ ~p_scripted[j]
                /\ p_script[j] = <<>>
                /\ p_result[j] = NoPath
                /\ p_tts_calls[j] = <<>>
                /\ ~Exists(AudioPath(j))
                /\ ~Exists(TextPath(AudioPath(j)))
                /\ \A q \in DOMAIN files : q.id = j => q = PdfPath(j)
                /\ (a_pc[j] = "done" /\ a_mode[j] = "inline") => a_http[j] = "500"

\* An inline job has ended whose second generation call raised after the
\* first had returned an output.
C15_Witness ==
    \E j \in Jobs :
        /\ a_pc[j] = "done"
        /\ a_mode[j] = "inline"
        /\ Len(p_llm_calls[j]) = 2
        /\ Len(p_chunks[j]) = 3
        /\ p_llm_calls[j][1].output # <<>>
        /\ p_llm_calls[j][2].outcome = "raise"

\* C16: a job whose PDF does not parse leaves extraction with the extraction
\* error raised by create_podcast, and a job with that error has made no
\* generation call and no TTS call and has neither an audio nor a text file.
C16_ExtractionFailure ==
    \A j \in Jobs :
        /\ ( /\ a_pc[j] \notin {"new", "rejected", "extract"}
             /\ Exists(PdfPath(j))
             /\ ~files[PdfPath(j)].data.parsable ) => p_error[j] = "extract"
        /\ p_error[j] = "extract" =>
              /\ a_pc[j] \in {"raised", "done"}
              /\ p_llm_calls[j] = <<>>
              /\ p_tts_calls[j] = <<>>
              /\ p_result[j] = NoPath
              /\ ~Exists(AudioPath(j))
              /\ ~Exists(TextPath(AudioPath(j)))
              /\ (a_pc[j] = "done" /\ a_mode[j] = "inline") => a_http[j] = "500"

\* A background job whose PDF holds pages of text and does not parse has ended.
C16_Witness ==
    \E j \in Jobs :
        /\ a_pc[j] = "done"
        /\ a_mode[j] = "background"
        /\ p_error[j] = "extract"
        /\ Exists(PdfPath(j))
        /\ ~files[PdfPath(j)].data.parsable
        /\ Len(files[PdfPath(j)].data.pages) >= 2

\* C21: every file of the file area, whichever pipeline created it, has the
\* identifier of one job in its path, and the list the encoder reads for a job
\* names that job's fragments only.
C21_JobScopedFiles ==
    /\ \A q \in DOMAIN files : q.id \in Jobs
    /\ \A j \in Jobs :
          (a_pc[j] = "ffmpeg" /\ Exists(FileList)) =>
              \A k \in 1..Len(files[FileList].data) : files[FileList].data[k].id = j

\* The pipeline of job j has been accepted and has not finished.
PipelineRunning(j) ==
    a_pc[j] \in {"extract", "transform", "tts", "ffmpeg", "cleanup", "rm_pdf"}

\* C22: /status answers one of "processing", "completed" and "not_found" for
\* any id, and whenever it can be handled while the pipeline of an accepted job
\* is running, its answer for that job is not "not_found".
C22_StatusThreeValued ==
    /\ h_resp.endpoint = "status" =>
          h_resp.answer \in {"processing", "completed", "not_found"}
    /\ \A j \in Jobs :
          /\ check_status(j) \in {"processing", "completed", "not_found"}
          /\ (LoopFree /\ PipelineRunning(j)) => check_status(j) # "not_found"

\* /status has answered "processing" for a job that is between two
\* generation calls.
C22_Witness ==
    \E j \in Jobs :
        /\ h_resp = [endpoint |-> "status", job_id |-> j, answer |-> "processing",
                     body |-> NoBody]
        /\ a_pc[j] = "transform"
        /\ Len(p_processed[j]) = 1
        /\ Len(p_chunks[j]) >= 2

\* C23: once a job has made a call to the TTS endpoint, whatever its outcome,
\* the job's text file exists and holds the script.
C23_TextBeforeTts ==
    \A j \in Jobs :
        p_tts_calls[j] # <<>> =>
            /\ Exists(TextPath(AudioPath(j)))
            /\ files[TextPath(AudioPath(j))] = TextFile(p_script[j])

\* The audio of all the chunks of job j's script, in order.
CompleteAudio(j) ==
    AudioFile([k \in 1..Len(p_text_chunks[j]) |-> Fragment(k - 1, p_text_chunks[j][k])])

C27_InlineIffSmall ==
    \A j \in Jobs :
        /\ (a_mode[j] = "none") <=> (a_pc[j] \in {"new", "sent", "rejected"})
        /\ a_pc[j] = "extract" => Exists(PdfPath(j))
        /\ Exists(PdfPath(j)) =>
              /\ files[PdfPath(j)].data.size < 1024 * 1024 => a_mode[j] = "inline"
              /\ files[PdfPath(j)].data.size >= 1024 * 1024 => a_mode[j] = "background"
        /\ a_mode[j] = "inline" =>
              /\ a_tasks[j] = 0
              /\ a_pc[j] # "done" => a_http[j] = "none"
              /\ a_pc[j] = "done" => a_http[j] \in {"file_response", "completed_as_text", "500"}
        /\ a_mode[j] = "background" =>
              /\ a_tasks[j] = 1
              /\ a_http[j] = "processing"

\* A small upload whose answer came after create_podcast returned, and a large
\* one answered "processing" with its run not yet started.
C27_Witness ==
    /\ a_mode["j1"] = "inline" /\ a_pc["j1"] = "done" /\ a_http["j1"] = "file_response"
    /\ a_mode["j2"] = "background" /\ a_pc["j2"] = "extract" /\ a_http["j2"] = "processing"

PdfNames == { <<"a", ".", "p", "d", "f">>, <<"a", ".", "P", "D", "F">> }

\* A request answered HTTP 400 has left no job behind: no mode, no background
\* task, no file under its identifier, nothing of a pipeline run.
NothingStarted(j) ==
    /\ a_mode[j] = "none"
    /\ a_tasks[j] = 0
    /\ \A path \in DOMAIN files : path.id # j
    /\ p_text[j] = <<>> /\ p_chunks[j] = <<>> /\ p_llm_calls[j] = <<>>
    /\ p_tts_calls[j] = <<>> /\ p_result[j] = NoPath /\ p_error[j] = "none"

\* The step of /convert that answers a request in flight.
AnswersRequest(j) == a_pc[j] = "sent" /\ a_pc'[j] # "sent"

\* C29: /convert answers a request whose file name does not end in ".pdf", in
\* any case of the letters, with HTTP 400, and that step changes no file and
\* starts nothing: no job, no upload or podcast file, no pipeline run.
C29_RejectLeavesState ==
    /\ [](\A j \in Jobs : a_pc[j] = "rejected" => (a_http[j] = "400" /\ NothingStarted(j)))
    /\ [][\A j \in Jobs :
            (AnswersRequest(j) /\ a_req[j].filename \notin PdfNames) =>
                /\ a_pc'[j] = "rejected"
                /\ a_http'[j] = "400"
                /\ files' = files
                /\ UNCHANGED <<a_mode, a_tasks, p_text, p_chunks, p_processed, p_llm_calls,
                               p_scripted, p_script, p_text_chunks, p_audio_chunks,
                               p_tts_calls, p_error, p_result, p_pdf_removes>>]_vars

\* A request rejected while the other job's upload is saved and its run pending.
C29_Witness ==
    /\ a_pc["j1"] = "rejected" /\ a_http["j1"] = "400"
    /\ a_pc["j2"] = "extract" /\ Exists(PdfPath("j2"))

\* ------------------------------------------------------------------ TextToSpeechService claims

\* The calls that returned status 200, in the order they were made.
Successes == SelectSeq(t_calls, LAMBDA c : c.outcome = "200")

\* The fragments of the successful calls, in the order the calls were made.
SuccessFragments ==
    [k \in 1..Len(Successes) |->
        Fragment(Successes[k].chunk,
                 enhance_speech_dynamics(t_chunks[Successes[k].chunk + 1], Voice))]

\* generate_audio has returned after n >= 2 chunks of which some, not all,
\* returned a non-success status, and no call raised.
PartialFailure ==
    /\ t_pc = "done"
    /\ Len(t_chunks) >= 2
    /\ \A k \in 1..Len(t_calls) : t_calls[k].outcome \in {"200", "error"}
    /\ \E k \in 1..Len(t_calls) : t_calls[k].outcome = "error"
    /\ \E k \in 1..Len(t_calls) : t_calls[k].outcome = "200"

AllCallsFailed ==
    /\ t_service = "openai"
    /\ t_pc \in {"done", "raised"}
    /\ \A k \in 1..Len(t_calls) : t_calls[k].outcome # "200"

\* C3: if every call fails, generate_audio returns the text path, the text file
\* holds the input script verbatim, and no audio file exists at output_path.
C3_AllFailVerbatimText ==
    AllCallsFailed =>
        /\ t_result = TextPath(t_output_path)
        /\ Exists(TextPath(t_output_path))
        /\ files[TextPath(t_output_path)] = TextFile(t_text)
        /\ ~Exists(t_output_path)

\* C3's case: two calls, both failed, for a script that
\* _enhance_speech_dynamics would have rewritten.
C3_Witness ==
    /\ AllCallsFailed
    /\ Len(t_calls) >= 2
    /\ enhance_speech_dynamics(t_text, Voice) # t_text
    /\ t_result = TextPath(t_output_path)

\* C4: when a call failed or raised for a chunk, only that chunk is skipped:
\* every chunk is called exactly once, and the fragments that were synthesized
\* make the final audio (stated for the runs where the encoder did not fail).
C4_OnlyFailedChunkSkipped ==
    ( /\ t_pc = "done"
      /\ t_ffmpeg # "failed"
      /\ \E k \in 1..Len(t_calls) : t_calls[k].outcome \in {"error", "raise"} )
    =>
        /\ \A i \in 0..(Len(t_chunks) - 1) :
              Cardinality({k \in 1..Len(t_calls) : t_calls[k].chunk = i}) = 1
        /\ Successes # <<>> =>
              /\ t_result = t_output_path
              /\ Exists(t_output_path)
              /\ files[t_output_path] = AudioFile(SuccessFragments)

\* C17: when the encoder failed on two or more fragments, no exception left
\* _combine_audio_files, the file at output_path is the first fragment as it was
\* saved, and generate_audio returns output_path with the other fragments
\* removed and no text file written.
C17_EncoderFallback ==
    t_ffmpeg = "failed" =>
        /\ Len(t_temp_files) >= 2
        /\ t_pc \in {"cleanup", "done"}
        /\ Exists(t_output_path)
        /\ files[t_output_path] = AudioFile(<<SuccessFragments[1]>>)
        /\ t_pc = "done" =>
              /\ t_result = t_output_path
              /\ \A k \in 1..Len(t_temp_files) : ~Exists(t_temp_files[k])
              /\ ~Exists(TextPath(t_output_path))

\* generate_audio has returned after the encoder failed on the fragments of
\* the second and third chunks, the call for the first having failed.
C17_Witness ==
    /\ t_pc = "done"
    /\ t_ffmpeg = "failed"
    /\ Len(t_temp_files) = 2
    /\ t_calls[1].outcome = "error"
    /\ files[t_output_path].data[1].chunk = 1

\* C18: once generate_audio has returned, on whatever path, no fragment file
\* <output_path>_chunk_<i>.mp3 exists.
C18_NoFragmentLeft ==
    t_pc = "done" =>
        \A i \in 0..MaxScriptLen : ~Exists(ChunkPath(t_output_path, i))

\* C19: filelist.txt does not exist once _combine_audio_files has been left,
\* whether the encoder succeeded or failed.
C19_FileListRemoved ==
    t_pc \in {"cleanup", "done", "except"} => ~Exists(FileList)

C26_StatusDownloadAgree ==
    \A j \in Jobs :
        download_podcast(j) # "not_found" => check_status(j) = "completed"

\* _generate_audio_local has left, by a return or with an exception.
LocalExited == t_service = "local" /\ t_pc \in {"done", "raised"}

\* C31: _generate_audio_local never raises to its caller; when it has left,
\* its temporary file is removed and it has returned output_path or the text
\* path, whose file then holds the input text verbatim.
C31_LocalNeverRaises ==
    LocalExited =>
        /\ ~Exists(TempFile)
        /\ t_pc # "raised"
        /\ \/ t_result = t_output_path
           \/ /\ t_result = TextPath(t_output_path)
              /\ Exists(TextPath(t_output_path))
              /\ files[TextPath(t_output_path)] = TextFile(t_text)

\* The part of C31 that holds: on every exit, the raise included, the temporary
\* file is removed, and a text path that is returned holds the text verbatim.
C31_TempFileRemoved ==
    LocalExited =>
        /\ ~Exists(TempFile)
        /\ t_pc = "done" =>
              \/ t_result = t_output_path /\ Exists(t_output_path)
              \/ /\ t_result = TextPath(t_output_path)
                 /\ Exists(TextPath(t_output_path))
                 /\ files[TextPath(t_output_path)] = TextFile(t_text)

\* ------------------------------------------------------------------ chunker claims

\* C8: joining the chunks with a single newline yields exactly the text's
\* sequence of newline-separated paragraphs, empty paragraphs included.
C8_RoundTrip ==
    /\ svc_called => split(join(<<NL>>, svc_chunks)) = split(c_text)
    /\ tts_called => split(join(<<NL>>, tts_chunks)) = split(c_text)

\* A chunk that is one paragraph (holds no newline) longer than max_length.
OverlongParagraph(chunk, max_length) ==
    /\ Len(chunk) > max_length
    /\ \A i \in 1..Len(chunk) : chunk[i] # NL

\* C9: every chunk has length (joining newlines included) at most max_length,
\* except a chunk that is exactly one paragraph longer than max_length.
C9_SizeBound ==
    /\ svc_called =>
         \A i \in 1..Len(svc_chunks) :
            \/ Len(svc_chunks[i]) <= c_max_length
            \/ OverlongParagraph(svc_chunks[i], c_max_length)
    /\ tts_called =>
         \A i \in 1..Len(tts_chunks) :
            \/ Len(tts_chunks[i]) <= c_max_length
            \/ OverlongParagraph(tts_chunks[i], c_max_length)

\* C10: for a fixed text, a smaller max_length never gives fewer chunks: the
\* chunks returned for max_length are at least as many as for any larger L2.
C10_CountMonotone ==
    /\ svc_called =>
         \A L2 \in (c_max_length + 1)..(MaxMaxLength + 1) :
            Len(svc_chunks) >= Len(split_for_tts(c_text, L2))
    /\ tts_called =>
         \A L2 \in (c_max_length + 1)..(MaxMaxLength + 1) :
            Len(tts_chunks) >= Len(split_text_for_tts(c_text, L2))

\* C10's case: a text for which raising max_length really merges chunks.
C10_Witness ==
    /\ svc_called
    /\ \E L2 \in (c_max_length + 1)..(MaxMaxLength + 1) :
          /\ Len(split_for_tts(c_text, L2)) >= 2
          /\ Len(svc_chunks) > Len(split_for_tts(c_text, L2))

\* The paragraphs of the chunker's argument are all empty.
NoNonEmptyParagraph ==
    \A k \in 1..Len(split(c_text)) : split(c_text)[k] = <<>>

\* C11: neither chunker returns an empty chunk, whatever the text and the
\* max_length, and a text whose paragraphs are all empty gives no chunk at all.
C11_NoEmptyChunk ==
    /\ svc_called =>
          /\ \A i \in 1..Len(svc_chunks) : svc_chunks[i] # <<>>
          /\ NoNonEmptyParagraph => svc_chunks = <<>>
    /\ tts_called =>
          /\ \A i \in 1..Len(tts_chunks) : tts_chunks[i] # <<>>
          /\ NoNonEmptyParagraph => tts_chunks = <<>>

\* Both chunkers have cut a text that starts with an overlong paragraph and
\* holds an empty one into several chunks.
C11_Witness ==
    /\ svc_called
    /\ tts_called
    /\ \E k \in 1..Len(split(c_text)) : split(c_text)[k] = <<>>
    /\ Len(split(c_text)[1]) > c_max_length
    /\ Len(svc_chunks) >= 2
    /\ Len(tts_chunks) >= 2

\* C30: for every text and max_length, _split_for_tts and _split_text_for_tts
\* return the same sequence of chunks.
C30_ChunkersEquivalent ==
    (svc_called /\ tts_called) => svc_chunks = tts_chunks

\* Both chunkers have returned for a text they cut in two or more chunks, one
\* of them joined from several paragraphs.
C30_Witness ==
    /\ svc_called
    /\ tts_called
    /\ Len(tts_chunks) >= 2
    /\ \E i \in 1..Len(tts_chunks) : \E k \in 1..Len(tts_chunks[i]) : tts_chunks[i][k] = NL

\* ------------------------------------------------------------------ speaker splitter claims

\* The script "David: x\ny\nSarah: y".
Scenario == <<"David", ":", SP, "x", NL, "y", NL, "Sarah", ":", SP, "y">>

\* The utterances split_speakers returned, each with its speaker.
AllUtterances ==
    UNION { {[label |-> l, text |-> k_result[l][a].text, index |-> k_result[l][a].index] :
                a \in 1..Len(k_result[l])} : l \in Labels \cup {Implicit} }

\* C24: split_speakers starts an utterance at each labeled line and appends
\* the unlabeled non-empty lines to the utterance in progress; the position
\* indices count the utterances from 0 in script order, so that the script
\* "David: x\ny\nSarah: y" gives David "x y" at index 0 and Sarah "y" at index 1.
C24_SpeakerSplit ==
    k_called =>
        LET lines == split(k_script)
            starts == SelectSeq(lines, is_labeled)
            nonempty == SelectSeq(lines, LAMBDA l : l # <<>>)
        IN  /\ {u.index : u \in AllUtterances} = 0..(Cardinality(AllUtterances) - 1)
            /\ \A l \in Labels \cup {Implicit} :
                  \A a, b \in 1..Len(k_result[l]) :
                      a < b => k_result[l][a].index < k_result[l][b].index
            /\ (nonempty = <<>> \/ is_labeled(nonempty[1])) =>
                  /\ Cardinality(AllUtterances) = Len(starts)
                  /\ \A i \in 1..Len(starts) :
                        \E u \in AllUtterances :
                            /\ u.label = starts[i][1]
                            /\ u.index = i - 1
                            /\ u.text[1] = starts[i][Len(starts[i])]
            /\ k_script = Scenario =>
                  /\ k_result["David"] = <<[text |-> <<"x", SP, "y">>, index |-> 0]>>
                  /\ k_result["Sarah"] = <<[text |-> <<"y">>, index |-> 1]>>
                  /\ k_result[Implicit] = <<>>

\* split_speakers has returned for the script of the scenario.
C24_Witness ==
    /\ k_called
    /\ k_script = Scenario
    /\ Len(k_result["David"]) = 1

====
